---- MODULE Spec2Model ----
(***************************************************************************)
(* Feiyu gimbal protocol codec (fyproto.py): Packet construction and       *)
(* serialisation, and the PacketReceiver stream decoder.                   *)
(*                                                                         *)
(* Bytes are integers 0..255 and byte strings are sequences of them.       *)
(* Operations that can raise in Python return a record [ok, val]: ok is    *)
(* FALSE and val names the exception when the operation raises.            *)
(***************************************************************************)
EXTENDS Integers, Sequences, FiniteSets, TLC

VARIABLES
    buffer,     \* PacketReceiver.buffer
    gens,       \* generator objects returned by parse(): [data, pc]
    out,        \* Packets yielded so far, in the order they were yielded
    diag,       \* "CRC mismatch" lines printed so far: [rx, calc]
    removed,    \* history: the byte runs cut off the front of buffer, in order
    err,        \* the exception that propagated out of a parse call, or "none"
    wire,       \* the byte stream the transport delivers
    pos,        \* how many bytes of wire have been handed to parse calls
    calls,      \* history: parse calls made so far: 0, 1, or 2 for two or more
    segs,       \* history: how wire was put together (frames, noise, tampered frames)
    client      \* the encoder's caller: constructor arguments and results

vars == <<buffer, gens, out, diag, removed, err, wire, pos, calls, segs, client>>

(***************************************************************************)
(* Bounds of the model.                                                    *)
(***************************************************************************)
\* longest payload of the packets put on the wire
MaxData == 2
\* total number of noise bytes placed around the frames of a noisy stream
MaxNoise == 2
\* number of parse() calls whose generators are kept in the generator model
MaxGens == 3
\* number of frames put back to back in one stream
MaxFrames == 3

(***************************************************************************)
(* Program constants.                                                      *)
(***************************************************************************)
LONG_FORM == 43605
SHORT_FORM == 23205

Byte == 0..255

Min(a, b) == IF a < b THEN a ELSE b

Ok(v) == [ok |-> TRUE, val |-> v]
Raise(e) == [ok |-> FALSE, val |-> e]

\* Python's s[a:b] on a byte string: 0-based, half-open, clamped to the string.
Slice(s, a, b) == SubSeq(s, a + 1, Min(b, Len(s)))

\* Python's s[a:]
SliceFrom(s, a) == SubSeq(s, a + 1, Len(s))

\* 2^k for k in 0..16
Pow2(k) == <<1, 2, 4, 8, 16, 32, 64, 128, 256, 512, 1024, 2048, 4096, 8192,
             16384, 32768, 65536>>[k + 1]

\* bit k of x
Bit(x, k) == (x \div Pow2(k)) % 2

\* x with bit k inverted
FlipBit(x, k) == IF Bit(x, k) = 1 THEN x - Pow2(k) ELSE x + Pow2(k)

(***************************************************************************)
(* struct: the format characters the program uses.                         *)
(***************************************************************************)
\* struct.calcsize of one format character
CalcSize(c) == IF c = "H" THEN 2 ELSE 1

\* faulty variant: a value out of range is cut to the field's width instead of raising
StructPack_wrap(c, v) ==
    Ok(IF c = "H" THEN <<v % 256, (v \div 256) % 256>> ELSE <<v % 256>>)

\* faulty variant: the largest value of a field is taken to be out of range
StructPack_strict(c, v) ==
    IF v < 0 \/ v >= Pow2(8 * CalcSize(c)) - 1
    THEN Raise("struct.error")
    ELSE Ok(IF c = "H" THEN <<v % 256, v \div 256>> ELSE <<v>>)

\* struct.pack('<' + c, v): little-endian unsigned of CalcSize(c) bytes;
\* struct.error when v is out of the format's range.
StructPack(c, v) ==
    IF v < 0 \/ v >= Pow2(8 * CalcSize(c))
    THEN Raise("struct.error")
    ELSE Ok(IF c = "H" THEN <<v % 256, v \div 256>> ELSE <<v>>)

\* struct.unpack('<' + c, b): struct.error unless b has exactly CalcSize(c) bytes.
StructUnpack(c, b) ==
    IF Len(b) # CalcSize(c)
    THEN Raise("struct.error")
    ELSE Ok(IF c = "H" THEN b[1] + 256 * b[2] ELSE b[1])

(***************************************************************************)
(* binascii.crc_hqx: CRC-CCITT, polynomial x^16 + x^12 + x^5 + 1 (0x1021), *)
(* most significant bit first, no reflection, no final xor.                *)
(***************************************************************************)
\* one message bit shifted into the 16-bit register
CrcBit(reg, bit) ==
    LET top == Bit(reg, 15)
        sh  == (reg * 2) % 65536
    IN  IF top # bit THEN FlipBit(FlipBit(sh + 1, 5), 12) ELSE sh

RECURSIVE CrcBits(_, _, _)
CrcBits(reg, byte, k) ==
    IF k < 0 THEN reg ELSE CrcBits(CrcBit(reg, Bit(byte, k)), byte, k - 1)

CrcByte(reg, byte) == CrcBits(reg, byte, 7)

\* the register after bytes lo..hi of data, left to right (the range is halved
\* and the left half's register computed first, which keeps the evaluation shallow)
RECURSIVE CrcRange(_, _, _, _)
CrcRange(data, lo, hi, reg) ==
    IF lo > hi THEN reg
    ELSE IF lo = hi THEN CrcByte(reg, data[lo])
    ELSE LET mid  == (lo + hi) \div 2
             left == CrcRange(data, lo, mid, reg)
         IN  IF left < 65536 THEN CrcRange(data, mid + 1, hi, left) ELSE left

crc_hqx(data, value) == CrcRange(data, 1, Len(data), value)

(***************************************************************************)
(* class Packet                                                            *)
(***************************************************************************)
formats ==
    (LONG_FORM :> [len_struct |-> "H", initial_crc_value |-> 65535]) @@
    (SHORT_FORM :> [len_struct |-> "B", initial_crc_value |-> 0])

\* faulty variant: the framing is not looked up in formats
Packet_nocheck(command, framing, target, data) ==
    Ok([command |-> command, framing |-> framing, target |-> target, data |-> data])

\* Packet.__init__(command, framing, target, data)
Packet(command, framing, target, data) ==
    IF framing \notin DOMAIN formats
    THEN Raise("ValueError")
    ELSE Ok([command |-> command, framing |-> framing,
             target |-> target, data |-> data])

\* Packet.crc(framing, data)
crc(framing, data) == crc_hqx(data, formats[framing].initial_crc_value)

\* Packet.format_option(name) for name = 'len_struct'
format_option(p) == formats[p.framing].len_struct

\* faulty variant: the CRC is appended big-endian
pack_crc_be(p) ==
    LET parts == <<p.target, p.command>>
                 \o StructPack(formats[p.framing].len_struct, Len(p.data)).val \o p.data
    IN  IF ~StructPack(formats[p.framing].len_struct, Len(p.data)).ok
        THEN Raise("struct.error")
        ELSE Ok(<<p.framing % 256, p.framing \div 256>> \o parts
                \o <<crc(p.framing, parts) \div 256, crc(p.framing, parts) % 256>>)

\* faulty variant: the CRC also covers the marker
pack_crc_marker(p) ==
    LET parts == <<p.target, p.command>>
                 \o StructPack(formats[p.framing].len_struct, Len(p.data)).val \o p.data
        whole == <<p.framing % 256, p.framing \div 256>> \o parts
    IN  IF ~StructPack(formats[p.framing].len_struct, Len(p.data)).ok
        THEN Raise("struct.error")
        ELSE Ok(whole \o StructPack("H", crc(p.framing, whole)).val)

\* Packet.pack()
pack(p) ==
    LET t == StructPack("B", p.target)
        c == StructPack("B", p.command)
        n == StructPack(format_option(p), Len(p.data))
    IN  IF ~t.ok THEN t
        ELSE IF ~c.ok THEN c
        ELSE IF ~n.ok THEN n
        ELSE LET parts == t.val \o c.val \o n.val \o p.data
             IN  Ok(StructPack("H", p.framing).val \o parts
                    \o StructPack("H", crc(p.framing, parts)).val)

(***************************************************************************)
(* class PacketReceiver                                                    *)
(***************************************************************************)
NoPacket == [none |-> TRUE]

\* faulty variant: the new bytes are put in front of the buffered ones
AppendData_front(buf, data) == data \o buf

\* line 75: self.buffer += data
AppendData(buf, data) == buf \o data

\* line 78: framing not in self.packetClass.formats
Unrecognized(framing) == framing \notin DOMAIN formats

\* faulty variant: both bytes of an unrecognized pair are dropped
Skip_pair(buf) == SliceFrom(buf, 2)

\* faulty variant: nothing is dropped on an unrecognized marker
Skip_none(buf) == buf

\* line 79: self.buffer = self.buffer[1:]
Skip(buf) == SliceFrom(buf, 1)

\* lines 82-83: struct.calcsize('<BB' + len_struct)
HeaderLen(framing) == 2 + CalcSize(formats[framing].len_struct)

\* faulty variant: the header is read as soon as header_len bytes are buffered
NeedHeader_short(buf, header_len) == Len(buf) < header_len

\* line 85: len(self.buffer) < header_len + 4
NeedHeader(buf, header_len) == Len(buf) < header_len + 4

\* faulty variant: the two CRC bytes are not waited for
NeedData_nocrc(buf, header_len, data_len) == Len(buf) < header_len + data_len + 2

\* faulty variant: a candidate is taken only once a byte more than it is buffered
NeedData_more(buf, header_len, data_len) == Len(buf) <= header_len + data_len + 4

\* line 89: len(self.buffer) < header_len + data_len + 4
NeedData(buf, header_len, data_len) == Len(buf) < header_len + data_len + 4

\* faulty variant: the payload stays in the buffer and is scanned again
Consume_header(buf, header_len, data_len) == SliceFrom(buf, 4 + header_len)

\* faulty variant: the two CRC bytes stay in the buffer
Consume_nocrc(buf, header_len, data_len) == SliceFrom(buf, 2 + header_len + data_len)

\* line 93: self.buffer = self.buffer[4+header_len+data_len:]
Consume(buf, header_len, data_len) == SliceFrom(buf, 4 + header_len + data_len)

\* faulty variant: only a received CRC above the computed one counts as a mismatch
Mismatch_above(rx_crc, calc_crc) == rx_crc > calc_crc

\* line 96: rx_crc != calc_crc
Mismatch(rx_crc, calc_crc) == rx_crc # calc_crc

Attempt(kind, buf, pkt, rx, calc, exc) ==
    [kind |-> kind, buffer |-> buf, pkt |-> pkt, rx |-> rx, calc |-> calc, exc |-> exc]

\* One pass of the while loop of parse (lines 76-100) over the buffer buf, told in
\* the stages the code goes through. Its outcome is one of
\*   "exit"   the while condition is false
\*   "skip"   unrecognized marker, one byte dropped (continue)
\*   "break"  recognized marker, not enough bytes yet
\*   "crc"    candidate consumed, CRC mismatch printed (continue)
\*   "yield"  candidate consumed, Packet yielded
\*   "raise"  an exception leaves the generator

\* lines 95-100: the candidate is cut off the buffer; its CRC decides
AtCrc(rest, framing, target, command, data, rx_crc, calc_crc) ==
    IF Mismatch(rx_crc, calc_crc)
    THEN Attempt("crc", rest, NoPacket, rx_crc, calc_crc, "none")
    ELSE IF ~Packet(command, framing, target, data).ok
    THEN Attempt("raise", rest, NoPacket, 0, 0, "ValueError")
    ELSE Attempt("yield", rest, Packet(command, framing, target, data).val, 0, 0, "none")

\* lines 91-93: the payload and the received CRC are sliced out
AtData(buf, framing, header_len, header, data_len, data, crc_bytes) ==
    IF ~StructUnpack("H", crc_bytes).ok
    THEN Attempt("raise", buf, NoPacket, 0, 0, "struct.error")
    ELSE AtCrc(Consume(buf, header_len, data_len), framing, header[1], header[2], data,
               StructUnpack("H", crc_bytes).val, crc(framing, header \o data))

\* lines 87-90: the header is unpacked; is the whole candidate buffered?
AtLength(buf, framing, header_len, header, data_len) ==
    IF NeedData(buf, header_len, data_len)
    THEN Attempt("break", buf, NoPacket, 0, 0, "none")
    ELSE AtData(buf, framing, header_len, header, data_len,
                Slice(buf, 2 + header_len, 2 + header_len + data_len),
                Slice(buf, 2 + header_len + data_len, 4 + header_len + data_len))

\* lines 82-87: a recognized marker; is the header buffered?
AtHeader(buf, framing, header_len, header) ==
    IF NeedHeader(buf, header_len)
    THEN Attempt("break", buf, NoPacket, 0, 0, "none")
    ELSE IF Len(header) # 2 + CalcSize(formats[framing].len_struct)
    THEN Attempt("raise", buf, NoPacket, 0, 0, "struct.error")
    ELSE AtLength(buf, framing, header_len, header,
                  StructUnpack(formats[framing].len_struct,
                               SubSeq(header, 3, Len(header))).val)

\* lines 78-84: the first two bytes read as a marker
AtMarker(buf, framing) ==
    IF Unrecognized(framing)
    THEN Attempt("skip", Skip(buf), NoPacket, 0, 0, "none")
    ELSE AtHeader(buf, framing, HeaderLen(framing),
                  Slice(buf, 2, 2 + HeaderLen(framing)))

\* faulty variant: the loop ends while fewer than 4 bytes are buffered
ExtractAttempt_four(buf) ==
    IF Len(buf) < 4
    THEN Attempt("exit", buf, NoPacket, 0, 0, "none")
    ELSE AtMarker(buf, StructUnpack("H", Slice(buf, 0, 2)).val)

\* lines 76-77
ExtractAttempt(buf) ==
    IF Len(buf) < 2
    THEN Attempt("exit", buf, NoPacket, 0, 0, "none")
    ELSE AtMarker(buf, StructUnpack("H", Slice(buf, 0, 2)).val)

\* history: the bytes a pass cut off the front of the buffer
Cut(kind, before, after) ==
    [kind |-> kind, bytes |-> SubSeq(before, 1, Len(before) - Len(after))]

\* The generator of parse, resumed with the receiver in state
\* st = [buffer, diag, removed, out, status, exc]: the while loop runs until it
\* yields ("yield": the Packet is appended to out), ends ("return") or raises.
RECURSIVE RunLoop(_)
\* the receiver after one pass with outcome a
AfterAttempt(st, a) ==
    CASE a.kind \in {"exit", "break"} -> [st EXCEPT !.status = "return"]
      [] a.kind = "raise" ->
            [st EXCEPT !.status = "raise", !.exc = a.exc, !.buffer = a.buffer]
      [] a.kind = "skip" ->
            RunLoop([st EXCEPT !.buffer = a.buffer,
                        !.removed = Append(@, Cut("skip", st.buffer, a.buffer))])
      [] a.kind = "crc" ->
            RunLoop([st EXCEPT !.buffer = a.buffer,
                        !.diag = Append(@, [rx |-> a.rx, calc |-> a.calc]),
                        !.removed = Append(@, Cut("frame", st.buffer, a.buffer))])
      [] a.kind = "yield" ->
            [st EXCEPT !.buffer = a.buffer, !.status = "yield",
                       !.out = Append(@, a.pkt),
                       !.removed = Append(@, Cut("frame", st.buffer, a.buffer))]

RunLoop(st) == AfterAttempt(st, ExtractAttempt(st.buffer))

\* The caller iterating a generator to its end (for pkt in rx.parse(data)).
RECURSIVE DrainLoop(_)
DrainMore(r) == IF r.status = "yield" THEN DrainLoop(r) ELSE r

DrainLoop(st) == DrainMore(RunLoop(st))

Receiver(buf, dg, rm, o) ==
    [buffer |-> buf, diag |-> dg, removed |-> rm, out |-> o,
     status |-> "running", exc |-> "none"]

\* list(PacketReceiver().parse(data)) on a receiver whose buffer is buf
Decode(buf, data) == DrainLoop(Receiver(AppendData(buf, data), <<>>, <<>>, <<>>))

(***************************************************************************)
(* The streams the transport delivers.                                     *)
(***************************************************************************)
\* all sequences over S of length n, and of length at most n
RECURSIVE SeqsOfLen(_, _)
SeqsOfLen(S, n) ==
    IF n = 0 THEN {<<>>}
    ELSE {Append(q, x) : q \in SeqsOfLen(S, n - 1), x \in S}

SeqsUpTo(S, n) == UNION {SeqsOfLen(S, k) : k \in 0..n}

\* payload and noise bytes: a plain byte and the two bytes of the short-form marker
DataBytes == {0, 165, 90}
NoiseBytes == {0, 165, 90}
Targets == {0, 90}
Commands == {1}

Pkts ==
    {Packet(c, f, t, d).val :
        c \in Commands, f \in DOMAIN formats, t \in Targets,
        d \in SeqsUpTo(DataBytes, MaxData)}

\* the packets sent in the longer streams: both framings, without a payload and
\* with a payload that reads as a marker
SomePkts == {p \in Pkts : p.target = 0 /\ p.data \in {<<>>, <<165, 90>>}}

\* frame f with bit k of its byte i inverted (i counts from 1)
Tamper(f, i, k) == [f EXCEPT ![i] = FlipBit(@, k)]

FrameSeg(p) == [kind |-> "frame", bytes |-> pack(p).val, pkt |-> p, at |-> 0, bit |-> 0]
NoiseSeg(g) == [kind |-> "noise", bytes |-> g, pkt |-> NoPacket, at |-> 0, bit |-> 0]
TamperedSeg(p, i, k) ==
    [kind |-> "tampered", bytes |-> Tamper(pack(p).val, i, k), pkt |-> p,
     at |-> i, bit |-> k]

RECURSIVE Flatten(_)
Flatten(ss) == IF ss = <<>> THEN <<>> ELSE Head(ss).bytes \o Flatten(Tail(ss))

\* two frames with noise before, between and after them
NoisyStreams ==
    {<<NoiseSeg(g0), FrameSeg(p1), NoiseSeg(g1), FrameSeg(p2), NoiseSeg(g2)>> :
        p1 \in {p \in SomePkts : (p.framing = SHORT_FORM) <=> (p.data = <<>>)},
        p2 \in {p \in SomePkts : p.data = <<>>},
        <<g0, g1, g2>> \in
            {t \in SeqsUpTo(NoiseBytes, MaxNoise) \X SeqsUpTo(NoiseBytes, MaxNoise)
                       \X SeqsUpTo(NoiseBytes, MaxNoise) :
                Len(t[1]) + Len(t[2]) + Len(t[3]) <= MaxNoise}}

\* one frame
FrameStreams == {<<FrameSeg(p)>> : p \in Pkts}

\* a frame with one bit inverted after its marker, followed by nothing, by a
\* frame or by noise
TamperedSegs(p) ==
    {TamperedSeg(p, i, k) : i \in 3..Len(pack(p).val), k \in 0..7}

TamperedStreams ==
    {<<t, s>> :
        t \in UNION {TamperedSegs(p) : p \in {q \in SomePkts : q.data # <<>>}},
        s \in {FrameSeg(q) : q \in SomePkts}
               \cup {NoiseSeg(g) : g \in SeqsUpTo(NoiseBytes, MaxNoise)}}

NoClient == [pc |-> "none"]

Fresh ==
    /\ buffer = <<>>
    /\ gens = <<>>
    /\ out = <<>>
    /\ diag = <<>>
    /\ removed = <<>>
    /\ err = "none"
    /\ pos = 0
    /\ calls = 0

Init ==
    /\ segs \in NoisyStreams
    /\ wire = Flatten(segs)
    /\ client = NoClient
    /\ Fresh

InitFrame ==
    /\ segs \in FrameStreams
    /\ wire = Flatten(segs)
    /\ client = NoClient
    /\ Fresh

InitTamper ==
    /\ segs \in TamperedStreams
    /\ wire = Flatten(segs)
    /\ client = NoClient
    /\ Fresh

\* the receiver's state after a call left it as r
Land(r) ==
    /\ buffer' = r.buffer
    /\ diag' = r.diag
    /\ removed' = r.removed
    /\ out' = r.out
    /\ err' = r.exc

\* The transport hands the next n bytes of the stream to parse and the caller
\* iterates the returned generator to its end.
Parse(n) ==
    /\ err = "none"
    /\ pos + n <= Len(wire)
    /\ Land(DrainLoop(Receiver(AppendData(buffer, SubSeq(wire, pos + 1, pos + n)),
                               diag, removed, out)))
    /\ pos' = pos + n
    /\ calls' = Min(calls + 1, 2)
    /\ UNCHANGED <<gens, wire, segs, client>>

Next == \E n \in 0..(Len(wire) - pos) : Parse(n)

Spec == Init /\ [][Next]_vars

SpecFrame == InitFrame /\ [][Next]_vars

SpecTamper == InitTamper /\ [][Next]_vars

(***************************************************************************)
(* parse as the generator function it is: a call only creates the          *)
(* generator; its body, line 75 included, runs when the caller asks the    *)
(* generator for its next item.                                            *)
(***************************************************************************)
\* two frames
GenStreams ==
    {<<FrameSeg(p1), FrameSeg(p2)>> :
        p1 \in {p \in SomePkts : (p.framing = SHORT_FORM) <=> (p.data = <<>>)},
        p2 \in {p \in SomePkts : p.data = <<>>}}

InitGen ==
    /\ segs \in GenStreams
    /\ wire = Flatten(segs)
    /\ client = NoClient
    /\ Fresh

\* g = rx.parse(data), data being the next n bytes of the stream
Call(n) ==
    /\ err = "none"
    /\ Len(gens) < MaxGens
    /\ pos + n <= Len(wire)
    /\ gens' = Append(gens, [data |-> SubSeq(wire, pos + 1, pos + n), pc |-> "new"])
    /\ pos' = pos + n
    /\ calls' = Min(calls + 1, 2)
    /\ UNCHANGED <<buffer, out, diag, removed, err, wire, segs, client>>

\* the buffer generator gen starts or goes on with
Entered(gen, buf) == IF gen.pc = "new" THEN AppendData(buf, gen.data) ELSE buf

\* where the generator stands after its loop left the receiver as r
Suspend(g, r) ==
    gens' = [gens EXCEPT ![g].pc = IF r.status = "yield" THEN "yielded" ELSE "done"]

\* next(g): generator g runs to its next yield, or to its end
GenNext(g) ==
    /\ err = "none"
    /\ gens[g].pc # "done"
    /\ Land(RunLoop(Receiver(Entered(gens[g], buffer), diag, removed, out)))
    /\ Suspend(g, RunLoop(Receiver(Entered(gens[g], buffer), diag, removed, out)))
    /\ UNCHANGED <<wire, pos, calls, segs, client>>

\* the chunk sizes of the generator model: nothing, one or two bytes, all the rest
NextGen ==
    \/ \E n \in {0, 1, 2, Len(wire) - pos} : Call(n)
    \/ \E g \in DOMAIN gens : GenNext(g)

SpecGen == InitGen /\ [][NextGen]_vars

(***************************************************************************)
(* The encoder's caller: Packet(...) and then pack().                      *)
(***************************************************************************)
\* a payload of n zero bytes
Fill(n) == [i \in 1..n |-> 0]

\* framing arguments: the two markers, zero, and the two markers byte-swapped
Framings == DOMAIN formats \cup {0, 42330, 21930}

\* payload arguments: short ones, and ones at and over the length fields' ranges
Datas == SeqsUpTo(DataBytes, MaxData) \cup {Fill(255), Fill(256), Fill(65536)}

\* The arguments of a call Packet(command, ...): given names the optional
\* arguments that are passed; one that is not passed is bound to its default
\* (line 37).
Args(given, c, f, t, d) ==
    [pc |-> "args", given |-> given, command |-> c,
     framing |-> IF "framing" \in given THEN f ELSE SHORT_FORM,
     target |-> IF "target" \in given THEN t ELSE 0,
     data |-> IF "data" \in given THEN d ELSE <<>>,
     pkt |-> NoPacket, bytes |-> <<>>, exc |-> "none"]

InitPack ==
    /\ client \in
          {Args(g, c, f, t, d) :
              g \in {{}, {"framing"}, {"framing", "target"}, {"framing", "target", "data"}},
              c \in Commands, f \in Framings, t \in Targets, d \in Datas}
    /\ segs = <<>>
    /\ wire = <<>>
    /\ Fresh

\* the caller after Packet(...) returned or raised r
Built(r) ==
    client' = IF r.ok THEN [client EXCEPT !.pc = "built", !.pkt = r.val]
              ELSE [client EXCEPT !.pc = "rejected", !.exc = r.val]

\* p = Packet(command, framing, target, data)
New ==
    /\ client.pc = "args"
    /\ Built(Packet(client.command, client.framing, client.target, client.data))
    /\ UNCHANGED <<buffer, gens, out, diag, removed, err, wire, pos, calls, segs>>

\* the caller after p.pack() returned or raised r
Packed(r) ==
    client' = IF r.ok THEN [client EXCEPT !.pc = "packed", !.bytes = r.val]
              ELSE [client EXCEPT !.pc = "failed", !.exc = r.val]

\* p.pack()
Pack ==
    /\ client.pc = "built"
    /\ Packed(pack(client.pkt))
    /\ UNCHANGED <<buffer, gens, out, diag, removed, err, wire, pos, calls, segs>>

NextPack == New \/ Pack

SpecPack == InitPack /\ [][NextPack]_vars

(***************************************************************************)
(* Properties of the decoder fed by fully drained calls.                   *)
(***************************************************************************)
\* the Packet a frame segment carries, and where the stream's segments end
Sent(i) == segs[i].pkt
EndOf(i) == Len(Flatten(SubSeq(segs, 1, i)))

\* C1 (round trip): a Packet's pack() fed to a fresh receiver in one drained
\* parse call yields exactly that Packet, once, and nothing is raised.
C1_RoundTrip ==
    (calls = 1 /\ pos = Len(wire)) => (err = "none" /\ out = <<Sent(1)>>)

C1_Witness ==
    /\ calls = 1 /\ pos = Len(wire)
    /\ out = <<Sent(1)>>
    /\ Sent(1).framing = LONG_FORM /\ Len(Sent(1).data) = 2

\* C2 (fragmentation invariance): however the frame is cut into chunks, empty ones
\* included, nothing is yielded before its last byte is delivered, and the call
\* that delivers the last byte yields what one call with the whole frame yields:
\* the Packet, once. No call raises.
C2_Fragmentation ==
    /\ err = "none"
    /\ pos < Len(wire) => out = <<>>
    /\ pos = Len(wire) => (out = Decode(<<>>, wire).out /\ out = <<Sent(1)>>)

C2_Witness ==
    /\ calls = 2 /\ pos = Len(wire)
    /\ buffer = <<>>
    /\ out = <<Sent(1)>>
    /\ Sent(1).framing = SHORT_FORM

\* bytes i, i+1 of g read little-endian as a recognized marker
MarkerAt(g, i) == (g[i] + 256 * g[i + 1]) \in DOMAIN formats

\* no two neighbouring bytes of g read as a recognized marker
NoMarker(g) == \A i \in 1..(Len(g) - 1) : ~MarkerAt(g, i)

\* g holds no recognized marker that is followed, in g, by a whole header
NonFrame(g) ==
    \A i \in 1..(Len(g) - 1) :
        MarkerAt(g, i) => Len(g) - (i + 1) < HeaderLen(g[i] + 256 * g[i + 1])

NoiseSegs == {i \in DOMAIN segs : segs[i].kind = "noise"}

\* C3 as stated: noise that holds no marker followed by a header, placed before,
\* between and after two valid frames, leaves exactly the two frames, in order.
C3_AsStated ==
    (pos = Len(wire) /\ \A i \in NoiseSegs : NonFrame(segs[i].bytes))
        => out = <<Sent(2), Sent(4)>>

\* C3 (resync after garbage), amended: noise that holds no recognized marker at
\* all, placed before, between and after two valid frames, leaves exactly the two
\* frames, in stream order, each once.
C3_Resync ==
    (pos = Len(wire) /\ \A i \in NoiseSegs : NoMarker(segs[i].bytes))
        => out = <<Sent(2), Sent(4)>>

C3_Witness ==
    /\ pos = Len(wire)
    /\ \A i \in NoiseSegs : NoMarker(segs[i].bytes)
    /\ segs[1].bytes # <<>> /\ segs[3].bytes # <<>>
    /\ out = <<Sent(2), Sent(4)>>
    /\ Sent(2) # Sent(4)

\* where the inverted bit of a tampered segment t lies in its frame
HeaderEnd(t) == 2 + HeaderLen(t.pkt.framing)
InTargetOrCommand(t) == t.at \in {3, 4}
InLengthField(t) == t.at \in 5..HeaderEnd(t)
InPayload(t) == t.at \in (HeaderEnd(t) + 1)..(HeaderEnd(t) + Len(t.pkt.data))
InCrcField(t) == t.at > HeaderEnd(t) + Len(t.pkt.data)

\* the CRC field of frame f
CrcField(f) == f[Len(f) - 1] + 256 * f[Len(f)]

\* the first diagnostic reports the tampered frame: its CRC field as received and
\* a different computed CRC; no Packet stands for it in out (see OnItsOwn)
DroppedWithDiagnostic ==
    /\ Len(diag) >= 1
    /\ diag[1].rx = CrcField(segs[1].bytes)
    /\ diag[1].calc # diag[1].rx

\* what followed the first segment was decoded as a fresh receiver decodes it alone
OnItsOwn(rest) ==
    /\ out = Decode(<<>>, rest).out
    /\ buffer = Decode(<<>>, rest).buffer

\* C4 as stated: one inverted bit in the target, command, length field or payload
\* of a valid frame makes the frame be dropped with a CRC diagnostic, and what
\* follows it is decoded as on its own.
C4_AsStated ==
    (pos = Len(wire) /\ ~InCrcField(segs[1]))
        => (DroppedWithDiagnostic /\ OnItsOwn(segs[2].bytes))

\* C4 (CRC tamper detection), amended: one inverted bit in the target, the command
\* or the payload of a valid frame (not in its marker, not in its length field)
\* makes the frame be dropped with a CRC diagnostic and not yielded, and the bytes
\* that follow it are decoded exactly as they are on their own.
C4_TamperDetected ==
    (pos = Len(wire) /\ (InTargetOrCommand(segs[1]) \/ InPayload(segs[1])))
        => (DroppedWithDiagnostic /\ OnItsOwn(segs[2].bytes))

C4_Witness ==
    /\ pos = Len(wire)
    /\ InPayload(segs[1])
    /\ segs[2].kind = "frame"
    /\ Len(diag) = 1
    /\ out = <<Sent(2)>>

\* C5 (no loss, no duplication): after every drained call the runs cut off the
\* buffer's front followed by the buffer are exactly the bytes fed so far, and
\* each run is one skipped byte or one whole candidate frame.
RECURSIVE Bytes(_)
Bytes(runs) == IF runs = <<>> THEN <<>> ELSE Head(runs).bytes \o Bytes(Tail(runs))

\* b is a whole candidate: a recognized marker, a header and as many payload
\* bytes as its length field says, and two CRC bytes
WholeCandidate(b) ==
    /\ Len(b) >= 7
    /\ \/ b[1] = 165 /\ b[2] = 90 /\ Len(b) = 7 + b[5]
       \/ b[1] = 85 /\ b[2] = 170 /\ Len(b) = 8 + b[5] + 256 * b[6]

C5_NoLoss ==
    /\ Bytes(removed) \o buffer = SubSeq(wire, 1, pos)
    /\ \A i \in DOMAIN removed :
          \/ removed[i].kind = "skip" /\ Len(removed[i].bytes) = 1
          \/ removed[i].kind = "frame" /\ WholeCandidate(removed[i].bytes)

C5_Witness ==
    /\ calls = 2
    /\ buffer # <<>>
    /\ \E i \in DOMAIN removed : removed[i].kind = "skip"
    /\ \E i \in DOMAIN removed : removed[i].kind = "frame"
    /\ Len(diag) >= 1

\* the extent the stream's first candidate announces in its length field, the
\* candidate itself, and whether its CRC field differs from the CRC of its
\* target..payload
Extent(w) == IF w[1] = 165 THEN 7 + w[5] ELSE 8 + w[5] + 256 * w[6]
Candidate(w) == SubSeq(w, 1, Extent(w))
BadCrc(c) ==
    CrcField(c) # crc_hqx(SubSeq(c, 3, Len(c) - 2), IF c[1] = 165 THEN 0 ELSE 65535)

\* C6 (a CRC mismatch leaves no trace): a fresh receiver is given a complete
\* candidate whose CRC does not match and then any bytes; nothing is raised, and
\* from the candidate's end on the Packets yielded and the buffer are those of a
\* fresh receiver given only the bytes after the candidate.
C6_NoTrace ==
    (Extent(wire) <= pos /\ BadCrc(Candidate(wire)))
        => (err = "none" /\ OnItsOwn(SubSeq(wire, Extent(wire) + 1, pos)))

C6_Witness ==
    /\ InCrcField(segs[1])
    /\ BadCrc(Candidate(wire))
    /\ pos = Len(wire)
    /\ segs[2].kind = "noise" /\ Len(segs[2].bytes) = 2
    /\ buffer # <<>>
    /\ Len(diag) = 1
    /\ out = <<>>

(***************************************************************************)
(* Properties of parse as a generator.                                     *)
(***************************************************************************)
\* C7 as stated: each call parse(data) appends data to the accumulator, so the
\* bytes cut off the buffer and the buffer are always the chunks in the order of
\* the calls, whether and in whatever order the returned generators are iterated.
C7_ArrivalOrder == Bytes(removed) \o buffer = SubSeq(wire, 1, pos)

(***************************************************************************)
(* Properties of Packet and pack().                                        *)
(***************************************************************************)
\* the wire layout [marker:2][target:1][command:1][length:w][payload:N][crc:2],
\* little-endian, the CRC over target..payload seeded by the framing
Layout(p, b, w, seed) ==
    /\ Len(b) = 2 + 1 + 1 + w + Len(p.data) + 2
    /\ b[1] = p.framing % 256 /\ b[2] = p.framing \div 256
    /\ b[3] = p.target
    /\ b[4] = p.command
    /\ b[5] + (IF w = 2 THEN 256 * b[6] ELSE 0) = Len(p.data)
    /\ SubSeq(b, 4 + w + 1, 4 + w + Len(p.data)) = p.data
    /\ CrcField(b) = crc_hqx(SubSeq(b, 3, Len(b) - 2), seed)

\* C8 (wire layout): what pack() returns is laid out as above, with a 1-byte
\* length field and CRC seed 0x0000 in short form, a 2-byte length field and CRC
\* seed 0xFFFF in long form; a short-form packet with target 0, command 1 and a
\* 2-byte payload starts A5 5A 00 01 02 and is 9 bytes long.
C8_WireLayout ==
    client.pc = "packed" =>
        /\ client.pkt.framing = 23205 => Layout(client.pkt, client.bytes, 1, 0)
        /\ client.pkt.framing = 43605 => Layout(client.pkt, client.bytes, 2, 65535)
        /\ (/\ client.pkt.framing = 23205 /\ client.pkt.target = 0
            /\ client.pkt.command = 1 /\ Len(client.pkt.data) = 2)
              => (/\ SubSeq(client.bytes, 1, 5) = <<165, 90, 0, 1, 2>>
                  /\ Len(client.bytes) = 9)

C8_Witness ==
    /\ client.pc = "packed"
    /\ client.pkt.framing = 23205 /\ client.pkt.target = 0
    /\ client.pkt.data = <<165, 90>>
    /\ Len(client.bytes) = 9

\* C9 (construction): Packet(...) raises ValueError exactly when the framing is
\* neither 0xAA55 nor 0x5AA5; otherwise the Packet holds command, framing, target
\* and data as given, an argument that is not given being short form, target 0
\* and the empty payload.
C9_Construction ==
    client.pc \notin {"none", "args"} =>
        /\ (client.pc = "rejected" /\ client.exc = "ValueError")
              <=> client.framing \notin {43605, 23205}
        /\ client.framing \in {43605, 23205} =>
              client.pkt = [command |-> client.command, framing |-> client.framing,
                            target |-> client.target, data |-> client.data]
        /\ client.pc # "rejected" =>
              /\ "framing" \notin client.given => client.pkt.framing = 23205
              /\ "target" \notin client.given => client.pkt.target = 0
              /\ "data" \notin client.given => client.pkt.data = <<>>

C9_Witness ==
    /\ client.pc = "rejected"
    /\ client.framing = 42330
    /\ client.exc = "ValueError"

\* the payload is longer than the framing's length field can say
TooLong(p) ==
    \/ p.framing = 23205 /\ Len(p.data) > 255
    \/ p.framing = 43605 /\ Len(p.data) > 65535

PackTried == client.pc \in {"packed", "failed"}

\* C10 as stated: pack() of a Packet whose payload is too long for the length
\* field does not fail; it returns bytes.
C10_AsStated == (PackTried /\ TooLong(client.pkt)) => client.pc = "packed"

\* C10 (over-long payload), amended: pack() of a Packet whose payload is longer
\* than the length field can say (over 255 bytes in short form, over 65535 in
\* long form) raises struct.error and returns nothing; nothing is truncated.
C10_TooLongRaises ==
    (PackTried /\ TooLong(client.pkt))
        => (client.pc = "failed" /\ client.exc = "struct.error" /\ client.bytes = <<>>)

C10_Witness ==
    /\ client.pc = "failed"
    /\ client.exc = "struct.error"
    /\ client.pkt.framing = 23205
    /\ Len(client.pkt.data) = 256

(***************************************************************************)
(* Payloads at the ends of the length fields' ranges.                      *)
(***************************************************************************)
\* targets and commands of the boundary packets
EdgeBytes == {0, 1, 85, 165, 255}

\* the longest short-form payload, and the empty and the longest long-form one
BoundaryPkts ==
    {Packet(c, SHORT_FORM, t, Fill(255)).val : c \in EdgeBytes, t \in EdgeBytes}
    \cup {Packet(c, LONG_FORM, t, <<>>).val : c \in EdgeBytes, t \in EdgeBytes}
    \cup {Packet(1, LONG_FORM, 0, Fill(65535)).val}

\* the frame of p, or the record of a pack() that raised
BoundarySeg(p) ==
    IF pack(p).ok THEN FrameSeg(p)
    ELSE [kind |-> "failed", bytes |-> <<>>, pkt |-> p, at |-> 0, bit |-> 0]

InitBoundary ==
    /\ segs \in {<<BoundarySeg(p)>> : p \in BoundaryPkts}
    /\ wire = Flatten(segs)
    /\ client = NoClient
    /\ Fresh

\* the whole of what is left of the stream goes into one drained parse call
ParseRest == Parse(Len(wire) - pos)

NextBoundary == ParseRest

SpecBoundary == InitBoundary /\ [][NextBoundary]_vars

\* C11 (boundary payload lengths): a short-form Packet with a 255-byte payload, a
\* long-form Packet with a 65535-byte payload and a long-form Packet with an empty
\* payload are each packed without an error, and the frame given to a fresh
\* receiver in one drained call yields exactly that Packet and leaves the buffer
\* empty; the frame is as long as marker, header, payload and CRC together.
C11_Boundary ==
    /\ segs[1].kind = "frame"
    /\ Len(wire) = 2 + HeaderLen(Sent(1).framing) + Len(Sent(1).data) + 2
    /\ (calls = 1 /\ pos = Len(wire))
          => (err = "none" /\ out = <<Sent(1)>> /\ buffer = <<>>)

C11_Witness ==
    /\ calls = 1 /\ pos = Len(wire)
    /\ Sent(1).framing = SHORT_FORM /\ Len(Sent(1).data) = 255
    /\ Len(out) = 1 /\ Len(out[1].data) = 255
    /\ buffer = <<>>

(***************************************************************************)
(* parse pass by pass: a drained call is the append of line 75 and then    *)
(* the passes of the while loop, one step each. gens holds the one         *)
(* generator being drained; its pc is "new" before line 75, "loop" at the  *)
(* while test, "yielded" at the yield of line 100, "done" after the loop   *)
(* ended or an exception left it.                                          *)
(***************************************************************************)
\* the streams taken pass by pass: the noisy ones, and those that start with a
\* frame whose bit 0 of one byte is inverted
LoopStreams == NoisyStreams \cup {ss \in TamperedStreams : ss[1].bit = 0}

InitLoop ==
    /\ segs \in LoopStreams
    /\ wire = Flatten(segs)
    /\ client = NoClient
    /\ Fresh

\* the generator being drained stands at pc
At(pc) == gens # <<>> /\ gens[1].pc = pc

\* g = rx.parse(data), data being the next n bytes of the stream; the generator
\* of the call before has been drained
LoopCall(n) ==
    /\ err = "none"
    /\ gens = <<>> \/ At("done")
    /\ pos + n <= Len(wire)
    /\ gens' = <<[data |-> SubSeq(wire, pos + 1, pos + n), pc |-> "new"]>>
    /\ pos' = pos + n
    /\ calls' = Min(calls + 1, 2)
    /\ UNCHANGED <<buffer, out, diag, removed, err, wire, segs, client>>

\* line 75, at the caller's first next(g)
LoopEnter ==
    /\ At("new")
    /\ buffer' = AppendData(buffer, gens[1].data)
    /\ gens' = [gens EXCEPT ![1].pc = "loop"]
    /\ UNCHANGED <<out, diag, removed, err, wire, pos, calls, segs, client>>

\* where the generator stands after a pass with outcome kind
AfterPass(kind) ==
    CASE kind \in {"exit", "break", "raise"} -> "done"
      [] kind \in {"skip", "crc"} -> "loop"
      [] kind = "yield" -> "yielded"

\* the receiver and the generator after one pass with outcome a
Passed(a) ==
    /\ buffer' = a.buffer
    /\ err' = a.exc
    /\ out' = IF a.kind = "yield" THEN Append(out, a.pkt) ELSE out
    /\ diag' = IF a.kind = "crc" THEN Append(diag, [rx |-> a.rx, calc |-> a.calc])
               ELSE diag
    /\ removed' = CASE a.kind = "skip" -> Append(removed, Cut("skip", buffer, a.buffer))
                    [] a.kind \in {"crc", "yield"} ->
                          Append(removed, Cut("frame", buffer, a.buffer))
                    [] OTHER -> removed
    /\ gens' = [gens EXCEPT ![1].pc = AfterPass(a.kind)]

\* one pass of the while loop, lines 76-100
LoopPass ==
    /\ At("loop")
    /\ Passed(ExtractAttempt(buffer))
    /\ UNCHANGED <<wire, pos, calls, segs, client>>

\* the caller's next(g) after a yield: the loop goes on at the while test
LoopResume ==
    /\ At("yielded")
    /\ gens' = [gens EXCEPT ![1].pc = "loop"]
    /\ UNCHANGED <<buffer, out, diag, removed, err, wire, pos, calls, segs, client>>

\* the caller draining the generator it holds
Drain == LoopEnter \/ LoopPass \/ LoopResume

\* the chunk sizes of the pass-by-pass model: one byte, or all the rest
NextLoop ==
    \/ \E n \in {1, Len(wire) - pos} : LoopCall(n)
    \/ Drain

SpecLoop == InitLoop /\ [][NextLoop]_vars

(***************************************************************************)
(* Properties of the single passes of the loop.                            *)
(***************************************************************************)
\* what the buffer b holds at the while test, read off its bytes: a recognized
\* marker in front; such a marker with less than the candidate it announces (not
\* yet its header and CRC, or not yet all of marker, header, payload and CRC);
\* such a marker with all of its candidate
Recognized(b) == Len(b) >= 2 /\ MarkerAt(b, 1)
Incomplete(b) ==
    /\ Recognized(b)
    /\ \/ Len(b) < HeaderLen(b[1] + 256 * b[2]) + 4
       \/ Len(b) < Extent(b)
Complete(b) == Recognized(b) /\ ~Incomplete(b)

\* C12 (termination): every pass of the loop either ends the loop, the buffer
\* holding fewer than 2 bytes or an incomplete candidate and staying as it is, or
\* goes on with a strictly shorter buffer: shorter by 1 byte after an
\* unrecognized marker, by the whole candidate otherwise. The buffer's length
\* bounds the passes of a call, so every drained call comes to its end.
C12_Terminates ==
    [][At("loop") =>
          \/ /\ Len(buffer) < 2 \/ Incomplete(buffer)
             /\ At("done")' /\ buffer' = buffer
          \/ /\ Len(buffer) >= 2 /\ ~Recognized(buffer)
             /\ ~At("done")' /\ Len(buffer') = Len(buffer) - 1
          \/ /\ Complete(buffer)
             /\ ~At("done")' /\ Len(buffer') = Len(buffer) - Extent(buffer)]_vars

C12_Witness ==
    /\ At("done")
    /\ calls = 1 /\ pos = Len(wire)
    /\ \E i \in DOMAIN removed : removed[i].kind = "skip"
    /\ Len(diag) = 1
    /\ Len(out) = 1
    /\ Len(buffer) = 1

\* the last run cut off the buffer
LastRemoved == removed[Len(removed)]

\* C13 (a candidate is consumed whole): a pass that finds a recognized marker and
\* at least the 2 + header + payload + 2 bytes its header announces cuts exactly
\* these bytes off the buffer, whether their CRC matches or not; what stays is
\* exactly what followed the candidate, and that is where the next pass starts.
\* With a matching CRC the Packet is yielded; with a mismatch one diagnostic is
\* printed, nothing is yielded and the loop goes on.
C13_ConsumedWhole ==
    [][(At("loop") /\ Complete(buffer)) =>
          /\ buffer' = SubSeq(buffer, Extent(buffer) + 1, Len(buffer))
          /\ removed' = Append(removed, [kind |-> "frame", bytes |-> Candidate(buffer)])
          /\ err' = "none"
          /\ IF BadCrc(Candidate(buffer))
             THEN At("loop")' /\ out' = out /\ Len(diag') = Len(diag) + 1
             ELSE At("yielded")' /\ Len(out') = Len(out) + 1 /\ diag' = diag]_vars

C13_Witness ==
    /\ At("loop")
    /\ removed # <<>>
    /\ LastRemoved.kind = "frame" /\ BadCrc(LastRemoved.bytes)
    /\ Len(LastRemoved.bytes) > 7
    /\ Len(diag) = 1
    /\ Recognized(buffer)

\* C14 (an unrecognized pair costs one byte): a pass that finds at least 2 bytes
\* whose first two do not read as a recognized marker drops exactly the first
\* byte, leaves all the others as they are, yields and prints nothing and goes on
\* with the loop; so a marker whose first byte was the second byte of the
\* unrecognized pair is the next pass's marker.
C14_SkipOne ==
    [][(At("loop") /\ Len(buffer) >= 2 /\ ~Recognized(buffer)) =>
          /\ buffer' = Tail(buffer)
          /\ removed' = Append(removed, [kind |-> "skip", bytes |-> <<Head(buffer)>>])
          /\ out' = out /\ diag' = diag /\ err' = "none"
          /\ At("loop")'
          /\ (Len(buffer) >= 3 /\ MarkerAt(buffer, 2)) => Recognized(buffer')]_vars

\* a marker that began in the second byte of an unrecognized pair was found and
\* its frame yielded
C14_Witness ==
    /\ At("yielded")
    /\ Len(removed) = 2
    /\ removed[1] = [kind |-> "skip", bytes |-> <<165>>]
    /\ removed[2].kind = "frame" /\ removed[2].bytes = segs[2].bytes
    /\ removed[2].bytes[1] = 165
    /\ out = <<Sent(2)>>

(***************************************************************************)
(* Frames back to back.                                                    *)
(***************************************************************************)
\* up to MaxFrames frames, any mix of the two framings, nothing between them
BatchStreams == SeqsUpTo({FrameSeg(p) : p \in SomePkts}, MaxFrames)

InitBatch ==
    /\ segs \in BatchStreams
    /\ wire = Flatten(segs)
    /\ client = NoClient
    /\ Fresh

SpecBatch == InitBatch /\ [][Next]_vars

\* C15 (a batch of frames in one call): one drained parse call on a fresh
\* receiver, given k >= 0 valid frames back to back, short and long form mixed,
\* yields exactly the k Packets, in the frames' order, each once, raises nothing
\* and leaves the buffer empty.
C15_Batch ==
    (calls = 1 /\ pos = Len(wire)) =>
        /\ err = "none"
        /\ Len(out) = Len(segs)
        /\ \A i \in DOMAIN segs : out[i] = Sent(i)
        /\ buffer = <<>>
        /\ diag = <<>>

C15_Witness ==
    /\ calls = 1 /\ pos = Len(wire)
    /\ Len(segs) = 3
    /\ Sent(1).framing = LONG_FORM /\ Sent(2).framing = SHORT_FORM
    /\ Sent(2) = Sent(3) /\ Sent(2).data # <<>>
    /\ out = <<Sent(1), Sent(2), Sent(3)>>
    /\ buffer = <<>>

(***************************************************************************)
(* Where a drained call leaves the receiver.                               *)
(***************************************************************************)
\* C16 (resting buffer): after every drained parse call the buffer holds fewer
\* than 2 bytes, or it starts with a recognized marker and is strictly shorter
\* than the candidate this marker announces (shorter than header and CRC, or
\* shorter than header, payload and CRC); it never rests on an unrecognized
\* leading pair or on a complete candidate.
C16_Resting ==
    /\ err = "none"
    /\ Len(buffer) < 2 \/ Incomplete(buffer)
    /\ ~(Len(buffer) >= 2 /\ ~Recognized(buffer))
    /\ ~Complete(buffer)

\* the receiver rests on a long-form candidate whose header is in and whose
\* payload is not
C16_Witness ==
    /\ calls = 2
    /\ Len(buffer) = 9
    /\ Recognized(buffer) /\ buffer[1] = 85
    /\ Extent(buffer) = 10
    /\ removed # <<>>

(***************************************************************************)
(* Generators that are not drained.                                        *)
(***************************************************************************)
\* the frames whose last byte has been handed to a parse call
Delivered == {i \in DOMAIN segs : EndOf(i) <= pos}

\* what has been yielded so far, followed by what a drained call parse(b'') made
\* now would yield
WithLaterCall == out \o Decode(buffer, <<>>).out

\* C17 as stated: wherever the caller stops iterating the generators it was
\* returned, after any number of Packets, nothing is lost: the Packets yielded so
\* far and then those of a later drained call with empty data are exactly the
\* Packets of the frames handed over, in order, each once.
C17_AsStated ==
    /\ Len(WithLaterCall) = Cardinality(Delivered)
    /\ \A i \in Delivered : WithLaterCall[i] = Sent(i)

(***************************************************************************)
(* Exceptions out of parse.                                                *)
(***************************************************************************)
\* C18 (parse never fails): whatever has been fed, in whatever chunks (frames,
\* frames cut short, frames with an inverted bit anywhere after the marker,
\* payloads that read as markers, noise), no drained parse call raises: no
\* struct.error from unpacking a header or CRC field that is not fully buffered,
\* no ValueError from constructing a Packet; every Packet yielded has a
\* recognized framing.
C18_NeverFails ==
    /\ err = "none"
    /\ \A i \in DOMAIN out : out[i].framing \in {23205, 43605}

\* a frame whose length field was raised announces more than is ever delivered:
\* the receiver, fed in several chunks, holds the cut-short candidate and has
\* raised nothing
C18_Witness ==
    /\ calls = 2 /\ pos = Len(wire)
    /\ InLengthField(segs[1])
    /\ segs[2].kind = "frame"
    /\ err = "none"
    /\ buffer = wire
    /\ out = <<>> /\ diag = <<>>

====
